---- MODULE Spec2Model ----
(***************************************************************************)
(* Model of deploy.py: a sequential orchestration script that provisions a *)
(* k3d cluster, imports an image, installs a monitoring chart and applies  *)
(* application manifests, or (argument 'cleanup') deletes the cluster.     *)
(*                                                                         *)
(* The environment supplies: the argument vector, the set of executables   *)
(* resolvable on the search path, whether a spawn fails for another        *)
(* reason, and the exit code of every child process.                       *)
(***************************************************************************)
EXTENDS Integers, Sequences, FiniteSets, TLC

\* ------------------------------------------------------------------ bounds
\* child exit codes range over 0..MaxExit
MaxExit == 2
\* number of positional arguments after the script name
MaxArgs == 2

\* --------------------------------------------------------- configuration
CLUSTER_NAME == "main-cluster"
NAMESPACE == "monitoring-app"
IMAGE_NAME == "python-metrics-app"
K8S_MANIFESTS_PATH == "k8s/"

\* --------------------------------------------------------------- strings
\* An argument is a sequence of one-character strings, so that lower()
\* is computed character by character.
Uppers == <<"A", "C", "D", "E", "L", "N", "O", "P", "U", "Y">>
Lowers == <<"a", "c", "d", "e", "l", "n", "o", "p", "u", "y">>

LowerChar(ch) ==
    IF \E i \in 1..Len(Uppers) : Uppers[i] = ch
    THEN Lowers[CHOOSE i \in 1..Len(Uppers) : Uppers[i] = ch]
    ELSE ch

Lower(s) == [i \in 1..Len(s) |-> LowerChar(s[i])]

W_cleanup == <<"c", "l", "e", "a", "n", "u", "p">>
W_CLEANUP == <<"C", "L", "E", "A", "N", "U", "P">>
W_CleanUp == <<"C", "l", "e", "a", "n", "U", "p">>
W_clean == <<"c", "l", "e", "a", "n">>
W_deploy == <<"d", "e", "p", "l", "o", "y">>
W_script == <<"d", "e", "p", "l", "o", "y", ".", "p", "y">>

\* the arguments the environment may pass
ArgWords == {W_cleanup, W_CLEANUP, W_CleanUp, W_clean, W_deploy}

\* sys.argv: the script name followed by 0..MaxArgs arguments
ArgVectors ==
    {<<W_script>> \o a : a \in UNION {[1..n -> ArgWords] : n \in 0..MaxArgs}}

\* ------------------------------------------------------------ environment
Tools == {"docker", "k3d", "kubectl", "helm"}
ExitCodes == 0..MaxExit

\* ----------------------------------------------------- external commands
K3dClusterGet == <<"k3d", "cluster", "get", CLUSTER_NAME>>
K3dClusterCreate == <<"k3d", "cluster", "create", CLUSTER_NAME>>
K3dImageImport == <<"k3d", "image", "import", IMAGE_NAME, "-c", CLUSTER_NAME>>
HelmRepoAdd == <<"helm", "repo", "add", "prometheus-community">>
HelmRepoUpdate == <<"helm", "repo", "update">>
HelmUpgradeInstall == <<"helm", "upgrade", "--install", "prometheus", "--namespace", NAMESPACE>>
KubectlGetNamespace == <<"kubectl", "get", "namespace", NAMESPACE>>
KubectlCreateNamespace == <<"kubectl", "create", "namespace", NAMESPACE>>
KubectlApply == <<"kubectl", "apply", "-f", K8S_MANIFESTS_PATH, "-n", NAMESPACE>>
K3dClusterDelete == <<"k3d", "cluster", "delete", CLUSTER_NAME>>

\* ---------------------------------------------- outcomes of a command
Exited(code) == [out |-> "exit", code |-> code]
NotFound == [out |-> "notfound", code |-> 0]
SpawnError == [out |-> "oserror", code |-> 0]

VARIABLES
    argv,           \* sys.argv
    path,           \* executables resolvable on the search path
    pc,             \* position of the (single) flow of control
    phase,          \* "call": about to call run_command; "wait": child running;
                    \* "ret": run_command has returned rc
    rc,             \* value returned by the last run_command
    calls,          \* commands handed to run_command, in order
    results,        \* outcome of each command: Exited(code), NotFound or SpawnError
    exc,            \* code of the SystemExit in flight (meaningful while pc = "raise")
    branch,         \* "none" before selection, then "cleanup" or "deploy"
    prereqChecked,  \* check_prerequisites has run
    exitCode,       \* exit status of the process (meaningful once pc = "done")
    fault,          \* an exception other than SystemExit was raised
    past,           \* the completed earlier runs: <<[calls, results]>>
    probe           \* the flags of a direct call of run_command: [stream, check]

vars == <<argv, path, pc, phase, rc, calls, results, exc, branch, prereqChecked,
          exitCode, fault, past, probe>>

Init ==
    /\ argv \in ArgVectors
    /\ path \in SUBSET Tools
    /\ pc = "main"
    /\ phase = "call"
    /\ rc = 0
    /\ calls = <<>>
    /\ results = <<>>
    /\ exc = 0
    /\ branch = "none"
    /\ prereqChecked = FALSE
    /\ exitCode = 0
    /\ fault = FALSE
    /\ past = <<>>
    /\ probe = [stream |-> TRUE, check |-> TRUE]

\* ---------------------------------------------------------------- sys.exit
\* sys.exit(code): SystemExit(code) starts to propagate
SysExit(code) ==
    /\ exc' = code
    /\ pc' = "raise"
    /\ phase' = "call"

\* the exit status the operating system sees for SystemExit(code)
ExitStatus(code) == code % 256

\* ------------------------------------------------------------- run_command
\* variant: the check flag is ignored, every non-zero code is fatal
Failed_ignoresCheck(check, returncode) == returncode # 0

\* the test of line 47 (streamed output)
Failed(check, returncode) == check /\ returncode # 0

\* variant: the captured-output path forgets the check flag
FailedCaptured_neverFatal(check, returncode) == FALSE

\* the test of line 53 (captured output)
FailedCaptured(check, returncode) == check /\ returncode # 0

\* run_command(command_args, stream_output, check) called at position pc.
\* First step: the spawn (Popen / subprocess.run).  Second step: the child
\* exits, its code is tested.
run_command(command_args, stream_output, check) ==
    \/ /\ phase = "call"
       /\ calls' = Append(calls, command_args)
       /\ IF command_args[1] \notin path
          THEN \* FileNotFoundError, line 58
               /\ results' = Append(results, NotFound)
               /\ SysExit(1)
               /\ UNCHANGED rc
          ELSE \E spawnFails \in BOOLEAN :
               IF spawnFails
               THEN \* any other exception, line 61
                    /\ results' = Append(results, SpawnError)
                    /\ SysExit(1)
                    /\ UNCHANGED rc
               ELSE /\ phase' = "wait"
                    /\ UNCHANGED <<results, rc, exc, pc>>
       /\ UNCHANGED <<argv, path, branch, prereqChecked, exitCode, fault, past, probe>>
    \/ /\ phase = "wait"
       /\ \E returncode \in ExitCodes :
            /\ results' = Append(results, Exited(returncode))
            /\ IF stream_output
               THEN \* lines 44-50
                    IF Failed(check, returncode)
                    THEN SysExit(returncode) /\ UNCHANGED rc
                    ELSE rc' = returncode /\ phase' = "ret" /\ UNCHANGED <<exc, pc>>
               ELSE \* lines 52-57
                    IF FailedCaptured(check, returncode)
                    THEN SysExit(returncode) /\ UNCHANGED rc
                    ELSE rc' = returncode /\ phase' = "ret" /\ UNCHANGED <<exc, pc>>
       /\ UNCHANGED <<argv, path, calls, branch, prereqChecked, exitCode, fault, past, probe>>

\* the caller continues at position p after run_command returned
Goto(p) ==
    /\ phase = "ret"
    /\ pc' = p
    /\ phase' = "call"
    /\ UNCHANGED <<argv, path, rc, calls, results, exc, branch, prereqChecked, exitCode, fault, past, probe>>

\* ---------------------------------------------------------------- main
\* variant: the argument is compared without lower()
IsCleanupArg_caseSensitive(av) == Len(av) > 1 /\ av[2] = W_cleanup

\* variant: the last argument is looked at instead of the first
IsCleanupArg_lastArg(av) == Len(av) > 1 /\ Lower(av[Len(av)]) = W_cleanup

\* the condition of line 130
IsCleanupArg(av) == Len(av) > 1 /\ Lower(av[2]) = W_cleanup

\* variant: the steps run in the order of their printed numbers
\* (application '3' before monitoring '4')
main_next_byStepNumber(f) ==
    CASE f = "check_prerequisites" -> "create_k3d_cluster"
      [] f = "create_k3d_cluster" -> "import_image_to_cluster"
      [] f = "import_image_to_cluster" -> "deploy_application"
      [] f = "deploy_application" -> "deploy_monitoring_stack"
      [] f = "deploy_monitoring_stack" -> "l139"

\* the statement sequence of the try block, lines 134-139: the position
\* reached when the function f returns
main_next(f) ==
    CASE f = "check_prerequisites" -> "create_k3d_cluster"
      [] f = "create_k3d_cluster" -> "import_image_to_cluster"
      [] f = "import_image_to_cluster" -> "deploy_monitoring_stack"
      [] f = "deploy_monitoring_stack" -> "deploy_application"
      [] f = "deploy_application" -> "l139"

main ==
    /\ pc = "main"
    /\ IF IsCleanupArg(argv)
       THEN branch' = "cleanup" /\ pc' = "cleanup"
       ELSE branch' = "deploy" /\ pc' = "check_prerequisites"
    /\ UNCHANGED <<argv, path, phase, rc, calls, results, exc, prereqChecked, exitCode, fault, past, probe>>

\* ------------------------------------------------------ check_prerequisites
required_tools == <<"docker", "k3d", "kubectl">>

check_prerequisites ==
    /\ pc = "check_prerequisites"
    /\ prereqChecked' = TRUE
    /\ IF \E i \in 1..Len(required_tools) : required_tools[i] \notin path
       THEN SysExit(1)
       ELSE pc' = main_next("check_prerequisites") /\ UNCHANGED <<phase, exc>>
    /\ UNCHANGED <<argv, path, rc, calls, results, branch, exitCode, fault, past, probe>>

\* ------------------------------------------------------- create_k3d_cluster
\* variant: the cluster is created without looking at the query
ClusterExists_never(returncode) == FALSE

\* variant: the test is inverted
ClusterExists_inverted(returncode) == returncode # 0

\* the test of line 68
ClusterExists(returncode) == returncode = 0

\* variant: the existence query is repeated after the create
create_k3d_cluster_requery ==
    \/ /\ pc = "create_k3d_cluster"
       /\ run_command(K3dClusterGet, FALSE, FALSE)
    \/ /\ pc = "create_k3d_cluster"
       /\ IF ClusterExists(rc)
          THEN Goto(main_next("create_k3d_cluster"))
          ELSE Goto("l74")
    \/ /\ pc = "l74"
       /\ run_command(K3dClusterCreate, TRUE, TRUE)
    \/ /\ pc = "l74"
       /\ Goto("create_k3d_cluster")

create_k3d_cluster ==
    \/ /\ pc = "create_k3d_cluster"
       /\ run_command(K3dClusterGet, FALSE, FALSE)
    \/ /\ pc = "create_k3d_cluster"
       /\ IF ClusterExists(rc)
          THEN Goto(main_next("create_k3d_cluster"))
          ELSE Goto("l74")
    \/ /\ pc = "l74"
       /\ run_command(K3dClusterCreate, TRUE, TRUE)
    \/ /\ pc = "l74"
       /\ Goto(main_next("create_k3d_cluster"))

\* -------------------------------------------------- import_image_to_cluster
import_image_to_cluster ==
    \/ /\ pc = "import_image_to_cluster"
       /\ run_command(K3dImageImport, TRUE, TRUE)
    \/ /\ pc = "import_image_to_cluster"
       /\ Goto(main_next("import_image_to_cluster"))

\* -------------------------------------------------- deploy_monitoring_stack
\* variant: check=False is omitted, the default check=True applies
HelmRepoAddCheck_default == TRUE

\* the check argument of the repo add, line 88
HelmRepoAddCheck == FALSE

deploy_monitoring_stack ==
    \/ /\ pc = "deploy_monitoring_stack"
       /\ run_command(HelmRepoAdd, TRUE, HelmRepoAddCheck)
    \/ /\ pc = "deploy_monitoring_stack"
       /\ Goto("l91")
    \/ /\ pc = "l91"
       /\ run_command(HelmRepoUpdate, TRUE, TRUE)
    \/ /\ pc = "l91"
       /\ Goto("l101")
    \/ /\ pc = "l101"
       /\ run_command(HelmUpgradeInstall, TRUE, TRUE)
    \/ /\ pc = "l101"
       /\ Goto(main_next("deploy_monitoring_stack"))

\* -------------------------------------------------------- deploy_application
\* variant: the namespace is created without looking at the query
NamespaceMissing_always(returncode) == TRUE

\* variant: the test is inverted
NamespaceMissing_inverted(returncode) == returncode = 0

\* the test of line 109
NamespaceMissing(returncode) == returncode # 0

deploy_application ==
    \/ /\ pc = "deploy_application"
       /\ run_command(KubectlGetNamespace, FALSE, FALSE)
    \/ /\ pc = "deploy_application"
       /\ IF NamespaceMissing(rc)
          THEN Goto("l110")
          ELSE Goto("l116")
    \/ /\ pc = "l110"
       /\ run_command(KubectlCreateNamespace, TRUE, TRUE)
    \/ /\ pc = "l110"
       /\ Goto("l116")
    \/ /\ pc = "l116"
       /\ run_command(KubectlApply, TRUE, TRUE)
    \/ /\ pc = "l116"
       /\ Goto(main_next("deploy_application"))

\* ------------------------------------------------------------------ cleanup
\* variant: the else of line 132 is missing, cleanup falls into the deploy steps
cleanup_fallsThrough ==
    \/ /\ pc = "cleanup"
       /\ run_command(K3dClusterDelete, TRUE, FALSE)
    \/ /\ pc = "cleanup"
       /\ Goto("check_prerequisites")

cleanup ==
    \/ /\ pc = "cleanup"
       /\ run_command(K3dClusterDelete, TRUE, FALSE)
    \/ /\ pc = "cleanup"
       /\ Goto("l146")

\* ------------------------------------------------------- the end of main
\* lines 139-140: the success messages of the deploy branch
main_success ==
    /\ pc = "l139"
    /\ pc' = "l146"
    /\ UNCHANGED <<argv, path, phase, rc, calls, results, exc, branch, prereqChecked, exitCode, fault, past, probe>>

\* lines 141-142: the deploy branch catches SystemExit and only prints it
main_except_SystemExit ==
    /\ pc = "raise"
    /\ branch = "deploy"
    /\ exc' = 0
    /\ pc' = "l146"
    /\ UNCHANGED <<argv, path, phase, rc, calls, results, branch, prereqChecked, exitCode, fault, past, probe>>

\* the cleanup branch has no handler: SystemExit ends the process
uncaught_SystemExit ==
    /\ pc = "raise"
    /\ branch = "cleanup"
    /\ exitCode' = ExitStatus(exc)
    /\ pc' = "done"
    /\ UNCHANGED <<argv, path, phase, rc, calls, results, exc, branch, prereqChecked, fault, past, probe>>

\* lines 146-150: main returns, the interpreter exits with status 0
main_return ==
    /\ pc = "l146"
    /\ exitCode' = 0
    /\ pc' = "done"
    /\ UNCHANGED <<argv, path, phase, rc, calls, results, exc, branch, prereqChecked, fault, past, probe>>

Next ==
    \/ main
    \/ check_prerequisites
    \/ create_k3d_cluster
    \/ import_image_to_cluster
    \/ deploy_monitoring_stack
    \/ deploy_application
    \/ cleanup
    \/ main_success
    \/ main_except_SystemExit
    \/ uncaught_SystemExit
    \/ main_return

Spec == Init /\ [][Next]_vars

\* ------------------------------------------- unexpected exceptions
\* The positions of the try block of main (lines 134-140) and of cleanup at
\* which a statement outside the try of run_command executes (the prints,
\* shutil.which).
TryPositions ==
    {"check_prerequisites", "create_k3d_cluster", "l74", "import_image_to_cluster",
     "deploy_monitoring_stack", "l91", "l101", "deploy_application", "l110",
     "l116", "l139"}
CleanupPositions == {"cleanup"}

\* such a statement raises an exception that is not SystemExit
unexpected_exception ==
    /\ pc \in TryPositions \cup CleanupPositions
    /\ phase \in {"call", "ret"}
    /\ fault' = TRUE
    /\ pc' = "raise_exception"
    /\ phase' = "call"
    /\ UNCHANGED <<argv, path, rc, calls, results, exc, branch, prereqChecked,
                   exitCode, past, probe>>

\* lines 143-144: the deploy branch catches it, prints it and falls through
main_except_Exception ==
    /\ pc = "raise_exception"
    /\ branch = "deploy"
    /\ pc' = "l146"
    /\ UNCHANGED <<argv, path, phase, rc, calls, results, exc, branch, prereqChecked,
                   exitCode, fault, past, probe>>

\* the cleanup branch has no handler: traceback, exit status 1
uncaught_Exception ==
    /\ pc = "raise_exception"
    /\ branch = "cleanup"
    /\ exitCode' = 1
    /\ pc' = "done"
    /\ UNCHANGED <<argv, path, phase, rc, calls, results, exc, branch, prereqChecked,
                   fault, past, probe>>

NextFault ==
    \/ Next
    \/ unexpected_exception
    \/ main_except_Exception
    \/ uncaught_Exception

\* the program in an environment where its own statements may raise
SpecFault == Init /\ [][NextFault]_vars

\* ------------------------------------------------- a second deploy run
\* The environment of a re-run: a cluster (namespace) exists once its query
\* returned 0 or its create succeeded, and then its query returns 0; in an
\* unchanged environment every other command repeats its earlier outcome.

\* the deploy run reached the success message of line 139
Succeeded ==
    /\ pc = "done"
    /\ branch = "deploy"
    /\ ~fault
    /\ calls # <<>>
    /\ calls[Len(calls)] = KubectlApply
    /\ Len(results) = Len(calls)
    /\ results[Len(calls)] = Exited(0)

\* the run r left the object that the query q asks for in existence
Ensured(r, q) ==
    \E k \in 1..Len(r.results) :
        /\ r.results[k] = Exited(0)
        /\ \/ q = K3dClusterGet /\ r.calls[k] \in {K3dClusterGet, K3dClusterCreate}
           \/ q = KubectlGetNamespace /\ r.calls[k] \in {KubectlGetNamespace, KubectlCreateNamespace}

\* the outcomes of the current run agree with the environment the earlier
\* run left behind
EnvConsistent ==
    past # <<>> =>
        \A i \in 1..Len(results) :
            IF Ensured(past[1], calls[i])
            THEN results[i] = Exited(0)
            ELSE \A k \in 1..Len(past[1].results) :
                    past[1].calls[k] = calls[i] => results[i] = past[1].results[k]

\* the script is started again after a successful deploy run
rerun ==
    /\ Succeeded
    /\ past = <<>>
    /\ past' = <<[calls |-> calls, results |-> results]>>
    /\ pc' = "main"
    /\ phase' = "call"
    /\ rc' = 0
    /\ calls' = <<>>
    /\ results' = <<>>
    /\ exc' = 0
    /\ branch' = "none"
    /\ prereqChecked' = FALSE
    /\ exitCode' = 0
    /\ UNCHANGED <<argv, path, fault, probe>>

NextEnv ==
    \/ main /\ EnvConsistent'
    \/ check_prerequisites /\ EnvConsistent'
    \/ create_k3d_cluster /\ EnvConsistent'
    \/ import_image_to_cluster /\ EnvConsistent'
    \/ deploy_monitoring_stack /\ EnvConsistent'
    \/ deploy_application /\ EnvConsistent'
    \/ cleanup /\ EnvConsistent'
    \/ main_success /\ EnvConsistent'
    \/ main_except_SystemExit /\ EnvConsistent'
    \/ uncaught_SystemExit /\ EnvConsistent'
    \/ main_return /\ EnvConsistent'
    \/ rerun

SpecEnv == Init /\ [][NextEnv]_vars

\* ------------------------------------------------------------ progress
\* The interpreter always takes its next step, and every spawned child
\* eventually exits (the step of run_command in phase "wait").
LiveSpec == Spec /\ WF_vars(Next)

\* ------------------------------------------- run_command on its own
\* run_command called once with every command, every combination of its
\* two flags and every search path.
AllCommands ==
    {K3dClusterGet, K3dClusterCreate, K3dImageImport, HelmRepoAdd, HelmRepoUpdate,
     HelmUpgradeInstall, KubectlGetNamespace, KubectlCreateNamespace, KubectlApply,
     K3dClusterDelete}

InitRunner ==
    /\ argv = <<W_script>>
    /\ path \in SUBSET Tools
    /\ probe \in [stream : BOOLEAN, check : BOOLEAN]
    /\ pc = "probe"
    /\ phase = "call"
    /\ rc = 0
    /\ calls = <<>>
    /\ results = <<>>
    /\ exc = 0
    /\ branch = "none"
    /\ prereqChecked = FALSE
    /\ exitCode = 0
    /\ fault = FALSE
    /\ past = <<>>

run_probe ==
    /\ pc = "probe"
    /\ \E cmd \in AllCommands :
          /\ phase = "wait" => cmd = calls[Len(calls)]
          /\ run_command(cmd, probe.stream, probe.check)

NextRunner == run_probe

SpecRunner == InitRunner /\ [][NextRunner]_vars

TypeOK ==
    /\ argv \in ArgVectors
    /\ path \subseteq Tools
    /\ phase \in {"call", "wait", "ret"}
    /\ rc \in ExitCodes
    /\ Len(results) <= Len(calls)
    /\ exc \in ExitCodes
    /\ branch \in {"none", "cleanup", "deploy"}
    /\ prereqChecked \in BOOLEAN
    /\ exitCode \in 0..255
    /\ fault \in BOOLEAN
    /\ Len(past) <= 1
    /\ probe \in [stream : BOOLEAN, check : BOOLEAN]

\* ======================================================= vocabulary of the claims
Terminated == pc = "done"
DeployRun == branch = "deploy"

\* the i-th command was spawned and its child exited with some code
Returned(i) == i <= Len(results) /\ results[i].out = "exit"
ReturnedZero(i) == Returned(i) /\ results[i].code = 0
ReturnedNonZero(i) == Returned(i) /\ results[i].code # 0
\* the i-th command could not be spawned
SpawnFailed(i) == i <= Len(results) /\ results[i].out \in {"notfound", "oserror"}

Count(cmd) == Cardinality({i \in 1..Len(calls) : calls[i] = cmd})
Invoked(cmd) == \E i \in 1..Len(calls) : calls[i] = cmd

\* the steps of the documented check=true kind
CheckedCommands ==
    {K3dClusterCreate, K3dImageImport, HelmRepoUpdate, HelmUpgradeInstall,
     KubectlCreateNamespace, KubectlApply}

\* the tools the deploy sequence is documented to require
DocumentedTools == {"docker", "k3d", "kubectl", "helm"}

\* the documented step of each deploy command
StepOf(cmd) ==
    CASE cmd \in {K3dClusterGet, K3dClusterCreate} -> 1
      [] cmd = K3dImageImport -> 2
      [] cmd \in {HelmRepoAdd, HelmRepoUpdate, HelmUpgradeInstall} -> 3
      [] cmd \in {KubectlGetNamespace, KubectlCreateNamespace, KubectlApply} -> 4
      [] OTHER -> 99

\* the i-th command made the program terminate
TriggersTermination(i) ==
    \/ SpawnFailed(i)
    \/ ReturnedNonZero(i) /\ calls[i] \in CheckedCommands

\* ---------------------------------------------------------------- C1
\* C1 (as stated): in a deploy run, when the child of a check=true step exits
\* with N # 0, the process exits with status N and that command is the last
\* one invoked.
C1_ExitCodePropagated ==
    (Terminated /\ DeployRun) =>
        \A i \in 1..Len(calls) :
            (calls[i] \in CheckedCommands /\ ReturnedNonZero(i)) =>
                (exitCode = results[i].code /\ i = Len(calls))

\* ---------------------------------------------------------------- C2
\* C2 (as stated): in a deploy run with one of docker, k3d, kubectl, helm
\* missing from the search path, the process exits with status 1 and no
\* external command was invoked.
C2_MissingToolExitsOne ==
    (Terminated /\ DeployRun /\ ~(DocumentedTools \subseteq path)) =>
        (exitCode = 1 /\ calls = <<>>)

\* ---------------------------------------------------------------- C3
\* C3: in a deploy run the commands are invoked in the step order cluster,
\* image, monitoring, application, after the prerequisite check; a command
\* is invoked only when every earlier one has finished; nothing is invoked
\* after a command that triggered termination.
C3_FixedStepOrder ==
    DeployRun =>
        /\ calls # <<>> => prereqChecked
        /\ \A i \in 1..Len(calls) : StepOf(calls[i]) \in 1..4
        /\ \A i, j \in 1..Len(calls) : i < j => StepOf(calls[i]) <= StepOf(calls[j])
        /\ Len(results) \in {Len(calls), Len(calls) - 1}
        /\ \A i \in 1..Len(calls) : TriggersTermination(i) => i = Len(calls)
        /\ (\E i \in 1..Len(required_tools) : required_tools[i] \notin path) => calls = <<>>

C3_Witness ==
    /\ Terminated /\ DeployRun
    /\ Len(calls) = 9
    /\ TriggersTermination(9)

\* ---------------------------------------------------------------- C4
\* C4: no argument, all tools present, every command (the two existence
\* queries included) exits 0: the commands invoked are exactly cluster query,
\* image import, repo add, repo update, chart install, namespace query,
\* manifest apply, and the process exits with status 0.
C4_Scenario ==
    /\ Terminated
    /\ Len(argv) = 1
    /\ path = Tools
    /\ \A i \in 1..Len(calls) : ReturnedZero(i)

C4_EverythingExists ==
    C4_Scenario =>
        /\ calls = <<K3dClusterGet, K3dImageImport, HelmRepoAdd, HelmRepoUpdate,
                     HelmUpgradeInstall, KubectlGetNamespace, KubectlApply>>
        /\ exitCode = 0

C4_Witness == C4_Scenario /\ Len(calls) = 7 /\ DeployRun

\* ---------------------------------------------------------------- C5
\* C5: when the cluster query returns 0 the cluster create is never invoked;
\* when it returns non-zero the create is invoked exactly once, as the very
\* next command and before the image import.
C5_ClusterProvisioner ==
    /\ Count(K3dClusterCreate) <= 1
    /\ \A i \in 1..Len(calls) :
        (calls[i] = K3dClusterGet /\ Returned(i)) =>
            IF results[i].code = 0
            THEN ~Invoked(K3dClusterCreate)
            ELSE /\ Len(calls) > i => calls[i + 1] = K3dClusterCreate
                 /\ Terminated => Len(calls) > i
                 /\ \A j \in 1..Len(calls) : calls[j] = K3dImageImport => j > i + 1

C5_Witness ==
    /\ Terminated
    /\ \E i \in 1..Len(calls) : calls[i] = K3dClusterGet /\ ReturnedNonZero(i)
    /\ Invoked(K3dClusterCreate)
    /\ Invoked(K3dImageImport)

\* ---------------------------------------------------------------- C6
\* C6: the namespace create is invoked iff the namespace query returned
\* non-zero; the manifest apply is invoked exactly once right after the
\* namespace step when the namespace was present or its create succeeded,
\* and never when the create failed.
C6_ApplicationDeployer ==
    /\ Invoked(KubectlCreateNamespace) =>
          \E i \in 1..Len(calls) : calls[i] = KubectlGetNamespace /\ ReturnedNonZero(i)
    /\ \A i \in 1..Len(calls) :
          (calls[i] = KubectlGetNamespace /\ ReturnedNonZero(i)) =>
              /\ Len(calls) > i => calls[i + 1] = KubectlCreateNamespace
              /\ Terminated => Len(calls) > i
    /\ \A i \in 1..Len(calls) :
          (calls[i] = KubectlGetNamespace /\ ReturnedZero(i)) =>
              /\ ~Invoked(KubectlCreateNamespace)
              /\ Len(calls) > i => calls[i + 1] = KubectlApply
              /\ Terminated => Count(KubectlApply) = 1
    /\ \A i \in 1..Len(calls) :
          (calls[i] = KubectlCreateNamespace /\ ReturnedZero(i)) =>
              /\ Len(calls) > i => calls[i + 1] = KubectlApply
              /\ Terminated => Count(KubectlApply) = 1
    /\ \A i \in 1..Len(calls) :
          (calls[i] = KubectlCreateNamespace /\ i <= Len(results) /\ ~ReturnedZero(i)) =>
              ~Invoked(KubectlApply)
    /\ Count(KubectlApply) <= 1
    /\ Count(KubectlCreateNamespace) <= 1

C6_Witness ==
    /\ Terminated
    /\ \E i \in 1..Len(calls) : calls[i] = KubectlGetNamespace /\ ReturnedNonZero(i)
    /\ \E i \in 1..Len(calls) : calls[i] = KubectlCreateNamespace /\ ReturnedZero(i)
    /\ Invoked(KubectlApply)

\* ---------------------------------------------------------------- C7
\* C7: a non-zero exit of the repo add does not abort (repo update is the
\* next command invoked); a non-zero exit of repo update or of the chart
\* install aborts: no command follows it and the Application Deployer is
\* not entered.
C7_MonitoringInstaller ==
    /\ \A i \in 1..Len(calls) :
          (calls[i] = HelmRepoAdd /\ ReturnedNonZero(i)) =>
              /\ Len(calls) = i => pc # "raise"
              /\ Len(calls) > i => calls[i + 1] = HelmRepoUpdate
              /\ Terminated => Len(calls) > i
    /\ \A i \in 1..Len(calls) :
          (calls[i] \in {HelmRepoUpdate, HelmUpgradeInstall} /\ ReturnedNonZero(i)) =>
              /\ Len(calls) = i
              /\ pc \in {"raise", "l146", "done"}

C7_Witness ==
    /\ Terminated
    /\ \E i \in 1..Len(calls) : calls[i] = HelmRepoAdd /\ ReturnedNonZero(i)
    /\ \E i \in 1..Len(calls) : calls[i] = HelmUpgradeInstall /\ ReturnedNonZero(i)

\* ---------------------------------------------------------------- C8
\* the spellings of the argument that select the cleanup branch
CleanupSpellings == {W_cleanup, W_CLEANUP, W_CleanUp}
CleanupRun == Len(argv) > 1 /\ argv[2] \in CleanupSpellings

\* C8: a run selected by the cleanup argument never runs the prerequisite
\* check and invokes exactly one command, the cluster delete.
C8_CleanupOnlyDeletes ==
    (CleanupRun /\ pc # "main") =>
        /\ ~prereqChecked
        /\ Len(calls) <= 1
        /\ \A i \in 1..Len(calls) : calls[i] = K3dClusterDelete
        /\ (Terminated \/ phase # "call") => calls = <<K3dClusterDelete>>

C8_Witness ==
    /\ CleanupRun /\ Terminated
    /\ argv[2] = W_CleanUp
    /\ ReturnedNonZero(1)

\* ---------------------------------------------------------------- C9
\* C9: a cleanup run exits with status 0 whatever code the cluster delete
\* returns.
C9_CleanupExitsZero ==
    (CleanupRun /\ Terminated /\ Returned(1)) => exitCode = 0

C9_Witness ==
    /\ CleanupRun /\ Terminated
    /\ Returned(1) /\ results[1].code = MaxExit
    /\ exitCode = 0

\* ---------------------------------------------------------------- C10
\* C10 (as stated): whenever a command cannot be spawned (executable not
\* found, or another spawn failure) the process exits with status 1 and
\* that command is the last one invoked, in both branches.
C10_SpawnFailureExitsOne ==
    Terminated =>
        \A i \in 1..Len(calls) :
            SpawnFailed(i) => (exitCode = 1 /\ i = Len(calls))

\* ---------------------------------------------------------------- C11
\* a failure of one of the kinds other than an unexpected exception happened
OtherFailure ==
    \/ DeployRun /\ prereqChecked
         /\ \E i \in 1..Len(required_tools) : required_tools[i] \notin path
    \/ \E i \in 1..Len(calls) : TriggersTermination(i)

\* C11 (as stated): a terminated run that failed ends with exit status 0
\* exactly when the failure was an unexpected exception in the deploy branch;
\* a missing prerequisite, a non-zero exit of a check=true step and a spawn
\* failure end with a non-zero status.
C11_OnlyUnexpectedExitsZero ==
    (Terminated /\ (fault \/ OtherFailure)) =>
        (exitCode = 0 <=> (DeployRun /\ fault))

\* ---------------------------------------------------------------- C12
DeployCommands ==
    {K3dClusterGet, K3dClusterCreate, K3dImageImport, HelmRepoAdd, HelmRepoUpdate,
     HelmUpgradeInstall, KubectlGetNamespace, KubectlCreateNamespace, KubectlApply}

\* C12: the cleanup branch runs iff the first argument exists and is
\* 'cleanup' in some letter case; otherwise the deploy branch runs; the
\* other arguments do not matter and exactly one branch runs.
C12_BranchSelection ==
    pc # "main" =>
        /\ branch \in {"cleanup", "deploy"}
        /\ branch = "cleanup" <=> CleanupRun
        /\ branch = "cleanup" =>
              /\ ~prereqChecked
              /\ \A i \in 1..Len(calls) : calls[i] = K3dClusterDelete
              /\ Terminated => Invoked(K3dClusterDelete)
        /\ branch = "deploy" =>
              /\ \A i \in 1..Len(calls) : calls[i] \in DeployCommands
              /\ Terminated => prereqChecked

C12_Witness ==
    /\ Terminated
    /\ Len(argv) = 3 /\ argv[2] = W_deploy /\ argv[3] = W_cleanup
    /\ branch = "deploy"
    /\ Invoked(K3dClusterGet)

\* ---------------------------------------------------------------- C13
\* C13: no command is invoked twice in one execution, whatever the children
\* return; in particular a failed command is not invoked again.
C13_NoRetries ==
    \A i, j \in 1..Len(calls) : calls[i] = calls[j] => i = j

C13_Witness ==
    /\ Terminated
    /\ Len(calls) >= 3
    /\ \E i \in 1..Len(calls) : calls[i] = K3dClusterGet /\ ReturnedNonZero(i)
    /\ ReturnedNonZero(Len(calls))

\* ---------------------------------------------------------------- C14
\* the earlier run completed successfully
PastSucceeded ==
    /\ past # <<>>
    /\ past[1].calls[Len(past[1].calls)] = KubectlApply
    /\ past[1].results[Len(past[1].calls)] = Exited(0)

ExistsScenario ==
    <<K3dClusterGet, K3dImageImport, HelmRepoAdd, HelmRepoUpdate,
      HelmUpgradeInstall, KubectlGetNamespace, KubectlApply>>

\* C14: in an unchanged environment, the deploy run that follows a
\* successful deploy run invokes neither create, invokes exactly the
\* commands of the 'everything already exists' scenario, and completes
\* successfully.
C14_IdempotentRerun ==
    PastSucceeded =>
        /\ ~Invoked(K3dClusterCreate)
        /\ ~Invoked(KubectlCreateNamespace)
        /\ Len(calls) <= 7
        /\ \A i \in 1..Len(calls) : calls[i] = ExistsScenario[i]
        /\ pc \notin {"raise", "raise_exception"}
        /\ Terminated => (Succeeded /\ calls = ExistsScenario /\ exitCode = 0)

C14_Witness ==
    /\ PastSucceeded
    /\ \E k \in 1..Len(past[1].calls) : past[1].calls[k] = K3dClusterCreate
    /\ \E k \in 1..Len(past[1].calls) : past[1].calls[k] = KubectlCreateNamespace
    /\ Terminated
    /\ calls = ExistsScenario

\* ---------------------------------------------------------------- C15
\* the namespace is known to exist after the first i commands
NamespaceEnsuredBy(i) ==
    \E j \in 1..i :
        /\ calls[j] \in {KubectlGetNamespace, KubectlCreateNamespace}
        /\ ReturnedZero(j)

\* the commands that name the configured namespace as their target
NamespaceTargeting == {HelmUpgradeInstall, KubectlApply}

\* C15 (as stated): a command that targets the configured namespace is
\* invoked only after the namespace query returned 0 or the namespace create
\* succeeded in that run (the application step '3' precedes the monitoring
\* step '4').
C15_NamespaceEnsuredFirst ==
    \A i \in 1..Len(calls) :
        calls[i] \in NamespaceTargeting => NamespaceEnsuredBy(i - 1)

\* ---------------------------------------------------------------- C16
\* C16: if every child eventually exits, every execution terminates, having
\* invoked at most nine commands in the deploy branch and one in the cleanup
\* branch; while a child runs the only step is that child's exit, so a child
\* that never exits blocks the program and no later command is invoked.
C16_Termination ==
    /\ <>Terminated
    /\ [](branch = "deploy" => Len(calls) <= 9)
    /\ [](branch = "cleanup" => Len(calls) <= 1)
    /\ [][phase = "wait" =>
            /\ Len(results') = Len(results) + 1
            /\ results'[Len(results')].out = "exit"
            /\ calls' = calls]_vars

C16_Witness ==
    /\ Terminated
    /\ DeployRun
    /\ Len(calls) = 9
    /\ ReturnedZero(9)
    /\ exitCode = 0

\* ---------------------------------------------------------------- C17
\* C17: whatever the streaming flag, a run_command whose child exited with
\* code c returns c when check is false or c = 0, and raises SystemExit(c)
\* when check is true and c # 0; with check false it never exits because of
\* the child's code.
C17_StreamIndependent ==
    (Len(results) = 1 /\ Returned(1)) =>
        IF probe.check /\ results[1].code # 0
        THEN pc = "raise" /\ exc = results[1].code
        ELSE pc = "probe" /\ phase = "ret" /\ rc = results[1].code

C17_Witness ==
    /\ ~probe.stream
    /\ probe.check
    /\ ReturnedNonZero(1)
    /\ results[1].code = MaxExit
    /\ pc = "raise"
    /\ exc = MaxExit
====
